---- MODULE Spec2Model ----
(***************************************************************************)
(* The disk-streaming engine of src/src/streamer.rs: the reader thread     *)
(* spawned by FileStreamer::new, and the facade operations seek, get_data  *)
(* and drop, over the block queue and the two single-slot handoff          *)
(* channels.                                                               *)
(*                                                                         *)
(* Granularity.  Each thread is cut at its accesses to memory shared with  *)
(* the other thread; everything a thread does between two such accesses    *)
(* belongs to one action.  The reader's drain loop is one action with the  *)
(* pop of the seek request: while it runs the reader owns both halves of   *)
(* the block queue, so no other thread can observe it.  Reserving, filling *)
(* and committing a chunk is one action placed at the commit: a            *)
(* reservation that succeeded stays valid, since the other thread only     *)
(* frees room.  seek and get_data take &mut self, so facade calls never    *)
(* overlap each other; a call begins (arguments recorded), runs its body   *)
(* up to its last access of shared memory, and, when a seek request has to *)
(* be sent, finishes with the push on the seek-request channel.            *)
(*                                                                         *)
(* Samples are integers.  File samples are multiples of blocksize, so the  *)
(* fade products s * r / blocksize are exact.                              *)
(***************************************************************************)
EXTENDS Integers, Sequences, FiniteSets, TLC

\* ------------------------------------------------------------ parameters
\* Arguments of FileStreamer::new.
blocksize == 2
channels == 2
buffer_blocks == 2

\* Frames the caller seeks to: the start, a frame inside the first block
\* and the start of the second block.
SeekFrames == {0, 1, blocksize}
\* The caller stops asking for data once the consumer it holds has
\* delivered ExtraBlocks blocks more than a full buffer past the last
\* seek target.
ExtraBlocks == 1
MaxFrame == (1 + buffer_blocks + ExtraBlocks) * blocksize

\* Content of a target buffer the caller passes to get_data.
Garbage == 0 - 1

VARIABLES
    \* reader thread
    rpc,                \* position of the reader thread in its loop
    r_data_consumer,    \* TRUE iff the reader's Option<DataConsumer> is Some
    current_frame,
    seek_frame,
    playlist,
    file_cursor,        \* read cursor of each file of file_storage
    \* shared
    keep_reading,
    seek_chan,          \* seek-request channel: frames, each with the consumer
    ready_chan,         \* ready channel: frames, each with the consumer
    data_queue,         \* committed chunks, oldest first
    \* facade
    fpc,                \* position of the facade's caller
    call,               \* the call in progress, or the last one
    ret,                \* what the last completed call returned
    data_consumer,      \* TRUE iff self.data_consumer is Some
    previously_rolling,
    state,
    target,             \* the caller's output buffer
    panicked,           \* "none", or the thread whose unwrap() panicked
    \* caller
    polling,            \* TRUE once the caller only polls the pending target
    \* history
    consumer_frame,     \* start frame of the next chunk the adopted consumer delivers
    popped,             \* the chunk the last get_data popped, <<>> if none
    fills,              \* fill steps since the pending seek target was set
    seek_done,          \* TRUE once a seek, the caller's or get_data's, returned true
    requested           \* frame of the seek request last sent; the reader starts at 0

reader_vars == <<rpc, r_data_consumer, current_frame, seek_frame, playlist, file_cursor>>
shared_vars == <<keep_reading, seek_chan, ready_chan, data_queue>>
facade_vars == <<fpc, call, ret, data_consumer, previously_rolling, state, target>>
history_vars == <<consumer_frame, popped, fills, seek_done, requested>>
vars == <<reader_vars, shared_vars, facade_vars, panicked, polling, history_vars>>

\* ------------------------------------------------------------ data model
Playing(f) == [kind |-> "Playing", frame |-> f]
Seeking(f) == [kind |-> "Seeking", frame |-> f]

\* A chunk as push_chunk hands it out: channels slices of blocksize zeros.
ZeroChunk == [c \in 1..channels |-> [j \in 1..blocksize |-> 0]]
GarbageTarget == [c \in 1..channels |-> [j \in 1..blocksize |-> Garbage]]

\* fill_with_zeros
fill_with_zeros_first(t) ==
    [c \in DOMAIN t |-> IF c = 1 THEN [j \in DOMAIN t[c] |-> 0] ELSE t[c]]
fill_with_zeros(t) == [c \in DOMAIN t |-> [j \in DOMAIN t[c] |-> 0]]

IsSilent(t) == \A c \in DOMAIN t : \A j \in DOMAIN t[c] : t[c][j] = 0

\* ------------------------------------------------------------ files
FileIds == 1..2
\* Frames in file idx.
FileLen(idx) == IF idx = 1 THEN 5 ELSE 3
\* Sample k (from 0) of file idx; nothing past the end of the file.
FileSample(idx, k) ==
    IF k >= 0 /\ k < FileLen(idx) THEN blocksize * (10 * idx + k + 1) ELSE 0
\* The channel map of file_storage[idx]: one output channel per file.
channel_map(idx) == ((idx - 1) % channels) + 1

EmptyPlaylist == <<>>
TwoEntries ==
    << [idx |-> 1, begin |-> 1, duration |-> FileLen(1)],
       [idx |-> 2, begin |-> 0, duration |-> FileLen(2)] >>
Playlists == {EmptyPlaylist, TwoEntries}

\* ActiveIter::next: the entries the iterator yields for a block.
IsActive(entry, block_start, block_end) ==
    entry.begin < block_end /\ block_start < entry.begin + entry.duration

\* file.fill_channels(channel_map, blocksize, offset, target) with the file's
\* cursor at `cursor`: mixes blocksize - offset frames into target from offset.
fill_channels(idx, cursor, offset, tgt) ==
    [c \in DOMAIN tgt |->
        [j \in DOMAIN tgt[c] |->
            IF c = channel_map(idx) /\ j - 1 >= offset
            THEN tgt[c][j] + FileSample(idx, cursor + (j - 1) - offset)
            ELSE tgt[c][j]]]

\* Where the cursor of the entry's file stands when fill_channels is called:
\* after file.seek(current_frame - begin) or file.seek(0), or where the
\* previous block left it.
file_seek_never(entry, cf, sf, cursor) ==
    IF entry.begin < cf THEN cursor[entry.idx] ELSE 0
file_seek(entry, cf, sf, cursor) ==
    IF entry.begin < cf
    THEN (IF cf = sf THEN cf - entry.begin ELSE cursor[entry.idx])
    ELSE 0

\* let offset = if entry.begin < current_frame { 0 } else { begin - current_frame }
offset(entry, cf) == IF entry.begin < cf THEN 0 ELSE entry.begin - cf

\* The loop over the active entries of one block, from entry i of pl on.
\* acc = [data |-> the chunk so far, cursor |-> the file cursors so far].
RECURSIVE FillEntries(_, _, _, _, _)
FillEntries(i, pl, cf, sf, acc) ==
    IF i > Len(pl) THEN acc
    ELSE LET entry == pl[i] IN
         IF ~IsActive(entry, cf, cf + blocksize)
         THEN FillEntries(i + 1, pl, cf, sf, acc)
         ELSE LET pos == file_seek(entry, cf, sf, acc.cursor)
                  off == offset(entry, cf)
              IN FillEntries(i + 1, pl, cf, sf,
                    [data |-> fill_channels(entry.idx, pos, off, acc.data),
                     cursor |-> [acc.cursor EXCEPT
                                   ![entry.idx] = pos + (blocksize - off)]])

\* ------------------------------------------------------------ initial state
Init ==
    /\ rpc = "check"
    /\ r_data_consumer = TRUE
    /\ current_frame = 0
    /\ seek_frame = 0
    /\ playlist \in Playlists
    /\ file_cursor = [i \in FileIds |-> 0]
    /\ keep_reading = TRUE
    /\ seek_chan = <<>>
    /\ ready_chan = <<>>
    /\ data_queue = <<>>
    /\ fpc = "idle"
    /\ call = [op |-> "none", frame |-> 0, rolling |-> FALSE]
    /\ ret = "none"
    /\ data_consumer = FALSE
    /\ previously_rolling = FALSE
    /\ state = Seeking(0)
    /\ target = GarbageTarget
    /\ panicked = "none"
    /\ polling = FALSE
    /\ consumer_frame = 0
    /\ popped = <<>>
    /\ fills = 0
    /\ seek_done = FALSE
    /\ requested = 0

\* ------------------------------------------------------------ reader thread
\* Fill steps are counted while a seek target is pending and no fade-out
\* stands in its way.
SeekPending == state.kind = "Seeking" /\ ~previously_rolling

\* while queue.pop_chunk().is_ok() {}: what is left of the queue.
drain_once(queue) == IF queue = <<>> THEN queue ELSE Tail(queue)
RECURSIVE drain(_)
drain(queue) == IF queue = <<>> THEN queue ELSE drain(Tail(queue))

\* current_frame = frame; seek_frame = frame: where filling starts again.
restart_stays(frame, cf) == cf
restart(frame, cf) == frame

\* Option::take on a consumer slot: what the slot holds afterwards.
take_keeps(slot) == slot
take(slot) == FALSE

\* The hand-off test of the fill step.
handoff_due_early(cf, sf) == cf - sf >= blocksize
handoff_due_late(cf, sf) == cf - sf > buffer_blocks * blocksize
handoff_due(cf, sf) == cf - sf >= buffer_blocks * blocksize

\* The loop condition: where the reader goes on the flag value it loaded.
loop_ignores_flag(flag) == "seek"
loop(flag) == IF flag THEN "seek" ELSE "done"

\* while keep_reading.load(Ordering::Acquire)
ReaderCheck ==
    /\ rpc = "check"
    /\ UNCHANGED polling
    /\ rpc' = loop(keep_reading)
    /\ UNCHANGED <<r_data_consumer, current_frame, seek_frame, playlist, file_cursor>>
    /\ UNCHANGED <<shared_vars, facade_vars, panicked, history_vars>>

\* if let Ok((frame, mut queue)) = seek_consumer.pop() { drain; ... }
ReaderSeek ==
    /\ rpc = "seek"
    /\ UNCHANGED polling
    /\ rpc' = "fill"
    /\ IF seek_chan # <<>>
       THEN /\ seek_chan' = Tail(seek_chan)
            /\ data_queue' = drain(data_queue)
            /\ r_data_consumer' = TRUE
            /\ current_frame' = restart(Head(seek_chan), current_frame)
            /\ seek_frame' = Head(seek_chan)
       ELSE UNCHANGED <<seek_chan, data_queue, r_data_consumer, current_frame, seek_frame>>
    /\ UNCHANGED <<playlist, file_cursor, keep_reading, ready_chan>>
    /\ UNCHANGED <<facade_vars, panicked, history_vars>>

\* if let Ok(mut chunk) = data_producer.push_chunk() { ... } else { sleep }
ReaderFill ==
    /\ rpc = "fill"
    /\ UNCHANGED polling
    /\ IF Len(data_queue) < buffer_blocks
       THEN LET filled == FillEntries(1, playlist, current_frame, seek_frame,
                            [data |-> ZeroChunk, cursor |-> file_cursor])
            IN /\ data_queue' = Append(data_queue,
                                  [frame |-> current_frame, data |-> filled.data])
               /\ file_cursor' = filled.cursor
               /\ current_frame' = current_frame + blocksize
               /\ fills' = IF SeekPending THEN fills + 1 ELSE fills
               /\ rpc' = "handoff"
       ELSE /\ rpc' = "check"
            /\ UNCHANGED <<data_queue, file_cursor, current_frame, fills>>
    /\ UNCHANGED <<r_data_consumer, seek_frame, playlist>>
    /\ UNCHANGED <<keep_reading, seek_chan, ready_chan>>
    /\ UNCHANGED <<facade_vars, panicked, consumer_frame, popped, seek_done, requested>>

\* if current_frame - seek_frame >= buffer_blocks * blocksize { take; push }
ReaderHandoff ==
    /\ rpc = "handoff"
    /\ UNCHANGED polling
    /\ IF handoff_due(current_frame, seek_frame) /\ r_data_consumer
       THEN /\ r_data_consumer' = take(r_data_consumer)
            /\ IF ready_chan = <<>>
               THEN /\ ready_chan' = <<seek_frame>>
                    /\ rpc' = "check"
                    /\ UNCHANGED panicked
               ELSE /\ rpc' = "panicked"
                    /\ panicked' = "reader"
                    /\ UNCHANGED ready_chan
       ELSE /\ rpc' = "check"
            /\ UNCHANGED <<r_data_consumer, ready_chan, panicked>>
    /\ UNCHANGED <<current_frame, seek_frame, playlist, file_cursor>>
    /\ UNCHANGED <<keep_reading, seek_chan, data_queue>>
    /\ UNCHANGED <<facade_vars, history_vars>>

Reader == ReaderCheck \/ ReaderSeek \/ ReaderFill \/ ReaderHandoff

\* ------------------------------------------------------------ facade
\* The ramps of get_data for blocksize B, (1..) and (1..=B).rev(), as the
\* sequence of the values r that zip pairs with the samples.
fade_in_ramp(B) == [j \in 1..B |-> j]
fade_out_ramp(B) == [j \in 1..B |-> B - (j - 1)]

\* The fades of get_data on one chunk: *t = s * r / blocksize.
fade_in(source) ==
    [c \in DOMAIN source |->
        [j \in DOMAIN source[c] |->
            (source[c][j] * fade_in_ramp(blocksize)[j]) \div blocksize]]
fade_out_rising(source) ==
    [c \in DOMAIN source |->
        [j \in DOMAIN source[c] |-> (source[c][j] * j) \div blocksize]]
fade_out(source) ==
    [c \in DOMAIN source |->
        [j \in DOMAIN source[c] |->
            (source[c][j] * fade_out_ramp(blocksize)[j]) \div blocksize]]

\* What get_data writes to target from a popped chunk.
faded_always_in(source, rolling, previously) == fade_in(source)
faded(source, rolling, previously) ==
    IF rolling /\ ~previously THEN fade_in(source)
    ELSE IF ~rolling /\ previously THEN fade_out(source)
    ELSE source

\* if let State::Playing(f) = self.state { if f == frame { return true; } }
already_playing_never(st, frame) == FALSE
already_playing(st, frame) == st = Playing(frame)

\* if let State::Playing(f) = self.state { self.state = Playing(f + blocksize) }
advance_stays(st) == st
advance(st) ==
    IF st.kind = "Playing" THEN Playing(st.frame + blocksize) ELSE st

\* The first branch of get_data: silence, the queue is not touched.
paused_never(rolling, previously) == FALSE
paused(rolling, previously) == ~rolling /\ ~previously

\* self.previously_rolling = rolling, which the early error returns skip:
\* the value of previously_rolling after a call that delivered a block or
\* returned early.
rolling_after_always(rolling, previously, delivered) == rolling
rolling_after(rolling, previously, delivered) ==
    IF delivered THEN rolling ELSE previously

\* The error get_data returns when it has no chunk to deliver.
no_chunk_always_empty(dc) == "EmptyBuffer"
no_chunk(dc) == IF dc THEN "EmptyBuffer" ELSE "IncompleteSeek"

\* if let State::Seeking(frame) = self.state { if rolling { return Err(..) } }
seek_while_rolling_off(st, rolling) == FALSE
seek_while_rolling(st, rolling) == st.kind = "Seeking" /\ rolling

\* if ready_frame == frame: the consumer received was filled for this target.
tag_matches_any(ready_frame, frame) == TRUE
tag_matches(ready_frame, frame) == ready_frame = frame

\* if self.previously_rolling { return false; }: seek waits for the fade-out.
deferred_never(prev) == FALSE
deferred(prev) == prev

\* seek, with a consumer tagged for another frame dropped instead of kept.
seek_drops_mismatch(frame, st, prev, dc, rchan, cframe) ==
    IF already_playing(st, frame)
    THEN [state |-> st, dc |-> dc, ready |-> rchan, cframe |-> cframe, out |-> "true"]
    ELSE IF deferred(prev)
    THEN [state |-> Seeking(frame), dc |-> dc, ready |-> rchan, cframe |-> cframe,
          out |-> "false"]
    ELSE IF ~dc /\ rchan # <<>>
    THEN IF tag_matches(Head(rchan), frame)
         THEN [state |-> Playing(frame), dc |-> TRUE, ready |-> Tail(rchan),
               cframe |-> Head(rchan), out |-> "true"]
         ELSE [state |-> Seeking(frame), dc |-> FALSE, ready |-> Tail(rchan),
               cframe |-> cframe, out |-> "false"]
    ELSE [state |-> Seeking(frame), dc |-> dc, ready |-> rchan, cframe |-> cframe,
          out |-> IF dc THEN "push" ELSE "false"]

\* FileStreamer::seek up to its push on the seek-request channel, on the
\* facade fields st (state), prev (previously_rolling), dc (data_consumer),
\* the ready channel rchan and the tag cframe of the consumer held.
\* out is "true" or "false" when seek returns there, "push" when it goes on
\* to take the consumer and push the request.
seek(frame, st, prev, dc, rchan, cframe) ==
    IF already_playing(st, frame)
    THEN [state |-> st, dc |-> dc, ready |-> rchan, cframe |-> cframe, out |-> "true"]
    ELSE IF deferred(prev)
    THEN [state |-> Seeking(frame), dc |-> dc, ready |-> rchan, cframe |-> cframe,
          out |-> "false"]
    ELSE IF ~dc /\ rchan # <<>>
    THEN IF tag_matches(Head(rchan), frame)
         THEN [state |-> Playing(frame), dc |-> TRUE, ready |-> Tail(rchan),
               cframe |-> Head(rchan), out |-> "true"]
         ELSE [state |-> Seeking(frame), dc |-> TRUE, ready |-> Tail(rchan),
               cframe |-> Head(rchan), out |-> "push"]
    ELSE [state |-> Seeking(frame), dc |-> dc, ready |-> rchan, cframe |-> cframe,
          out |-> IF dc THEN "push" ELSE "false"]

\* The fill count starts again whenever the pending target is set, changes
\* or is reached.
FillsAfter(st, prev) ==
    IF SeekPending /\ st = state /\ prev = previously_rolling THEN fills ELSE 0

\* The caller invokes seek(frame).
SeekBegin(frame) ==
    /\ fpc = "idle"
    /\ UNCHANGED polling
    /\ fpc' = "seek"
    /\ call' = [op |-> "seek", frame |-> frame, rolling |-> FALSE]
    /\ ret' = "none"
    /\ UNCHANGED <<data_consumer, previously_rolling, state, target>>
    /\ UNCHANGED <<reader_vars, shared_vars, panicked, history_vars>>

\* seek, lines 200-220 and the return at 224 when nothing is sent.
SeekBody ==
    /\ fpc = "seek"
    /\ UNCHANGED polling
    /\ LET r == seek(call.frame, state, previously_rolling, data_consumer,
                     ready_chan, consumer_frame)
       IN /\ state' = r.state
          /\ data_consumer' = r.dc
          /\ ready_chan' = r.ready
          /\ consumer_frame' = r.cframe
          /\ fpc' = IF r.out = "push" THEN "push" ELSE "idle"
          /\ ret' = IF r.out = "push" THEN ret ELSE r.out
          /\ fills' = FillsAfter(r.state, previously_rolling)
          /\ seek_done' = (seek_done \/ r.out = "true")
    /\ UNCHANGED <<call, previously_rolling, target, popped, requested>>
    /\ UNCHANGED <<reader_vars, keep_reading, seek_chan, data_queue, panicked>>

\* if let Some(queue) = self.data_consumer.take() { seek_producer.push(..).unwrap() }
\* The frame sent is the argument of seek, which line 206 stored in state.
SeekPush ==
    /\ fpc = "push"
    /\ UNCHANGED polling
    /\ data_consumer' = take(data_consumer)
    /\ IF seek_chan = <<>>
       THEN /\ seek_chan' = <<state.frame>>
            /\ requested' = state.frame
            /\ fpc' = "idle"
            /\ ret' = IF call.op = "seek" THEN "false" ELSE "Ok"
            /\ UNCHANGED panicked
       ELSE /\ fpc' = "panicked"
            /\ panicked' = "facade"
            /\ UNCHANGED <<seek_chan, ret, requested>>
    /\ UNCHANGED <<call, previously_rolling, state, target>>
    /\ UNCHANGED <<reader_vars, keep_reading, ready_chan, data_queue>>
    /\ UNCHANGED <<consumer_frame, popped, fills, seek_done>>

\* Whether a get_data(rolling) call now would try to pop a chunk.
WouldPop(rolling) == (rolling \/ previously_rolling) /\ data_consumer

\* The caller invokes get_data(target, rolling) with a buffer of its own.
GetDataBegin(rolling) ==
    /\ fpc = "idle"
    /\ UNCHANGED polling
    /\ WouldPop(rolling) => consumer_frame + blocksize <= MaxFrame
    /\ fpc' = "get_data"
    /\ call' = [op |-> "get_data", frame |-> 0, rolling |-> rolling]
    /\ ret' = "none"
    /\ target' = GarbageTarget
    /\ popped' = <<>>
    /\ UNCHANGED <<data_consumer, previously_rolling, state>>
    /\ UNCHANGED <<reader_vars, shared_vars, panicked, consumer_frame, fills, seek_done>>
    /\ UNCHANGED requested

\* get_data, lines 153-196; the seek of line 194 runs up to its push.
GetDataBody ==
    /\ fpc = "get_data"
    /\ UNCHANGED polling
    /\ LET rolling == call.rolling
           previously == previously_rolling
       IN IF paused(rolling, previously) \/ (data_consumer /\ data_queue # <<>>)
          THEN LET pop == ~paused(rolling, previously)
                   chunk == Head(data_queue)
                   st1 == IF pop THEN advance(state) ELSE state
                   cf1 == IF pop THEN consumer_frame + blocksize ELSE consumer_frame
                   r == seek(st1.frame, st1, rolling, data_consumer, ready_chan, cf1)
               IN /\ target' = IF pop THEN faded(chunk.data, rolling, previously)
                                      ELSE fill_with_zeros(target)
                  /\ data_queue' = IF pop THEN Tail(data_queue) ELSE data_queue
                  /\ popped' = IF pop THEN chunk ELSE popped
                  /\ previously_rolling' = rolling_after(rolling, previously, TRUE)
                  /\ IF seek_while_rolling(st1, rolling)
                     THEN /\ state' = st1
                          /\ consumer_frame' = cf1
                          /\ fpc' = "idle"
                          /\ ret' = "SeekWhileRolling"
                          /\ UNCHANGED <<data_consumer, ready_chan, seek_done>>
                     ELSE IF st1.kind = "Seeking"
                     THEN /\ state' = r.state
                          /\ data_consumer' = r.dc
                          /\ ready_chan' = r.ready
                          /\ consumer_frame' = r.cframe
                          /\ fpc' = IF r.out = "push" THEN "push" ELSE "idle"
                          /\ ret' = IF r.out = "push" THEN ret ELSE "Ok"
                          /\ seek_done' = (seek_done \/ r.out = "true")
                     ELSE /\ state' = st1
                          /\ consumer_frame' = cf1
                          /\ fpc' = "idle"
                          /\ ret' = "Ok"
                          /\ UNCHANGED <<data_consumer, ready_chan, seek_done>>
                  /\ fills' = FillsAfter(state', rolling)
          ELSE /\ target' = fill_with_zeros(target)
               /\ ret' = no_chunk(data_consumer)
               /\ fpc' = "idle"
               /\ previously_rolling' = rolling_after(rolling, previously, FALSE)
               /\ UNCHANGED <<data_consumer, state>>
               /\ UNCHANGED <<ready_chan, data_queue>>
               /\ UNCHANGED <<consumer_frame, popped, fills, seek_done>>
    /\ UNCHANGED <<call, reader_vars, keep_reading, seek_chan, panicked, requested>>

\* Drop: reader_thread_keep_reading.store(false, Release), then join.
Drop ==
    /\ fpc = "idle"
    /\ UNCHANGED polling
    /\ keep_reading' = FALSE
    /\ fpc' = "join"
    /\ UNCHANGED <<call, ret, data_consumer, previously_rolling, state, target>>
    /\ UNCHANGED <<reader_vars, seek_chan, ready_chan, data_queue>>
    /\ UNCHANGED <<panicked, history_vars>>

\* self.reader_thread.take().unwrap().join().unwrap().unwrap()
Join ==
    /\ fpc = "join"
    /\ UNCHANGED polling
    /\ rpc \in {"done", "panicked"}
    /\ fpc' = IF rpc = "done" THEN "dropped" ELSE "panicked"
    /\ UNCHANGED <<call, ret, data_consumer, previously_rolling, state, target>>
    /\ UNCHANGED <<reader_vars, shared_vars, panicked, history_vars>>

Next ==
    \/ ReaderCheck
    \/ ReaderSeek
    \/ ReaderFill
    \/ ReaderHandoff
    \/ \E frame \in SeekFrames : SeekBegin(frame)
    \/ SeekBody
    \/ SeekPush
    \/ \E rolling \in BOOLEAN : GetDataBegin(rolling)
    \/ GetDataBody
    \/ Drop
    \/ Join

Spec == Init /\ [][Next]_vars

\* From some moment between two calls on the caller only polls: while a target is pending it
\* calls seek for that target and no other.  It never drops the engine.
StartPolling ==
    /\ ~polling
    /\ fpc = "idle"
    /\ polling' = TRUE
    /\ UNCHANGED <<reader_vars, shared_vars, facade_vars, panicked, history_vars>>

PollSeek ==
    \E frame \in SeekFrames :
        /\ (polling /\ state.kind = "Seeking") => frame = state.frame
        /\ SeekBegin(frame)

NextPoll ==
    \/ ReaderCheck
    \/ ReaderSeek
    \/ ReaderFill
    \/ ReaderHandoff
    \/ StartPolling
    \/ PollSeek
    \/ SeekBody
    \/ SeekPush
    \/ \E rolling \in BOOLEAN : GetDataBegin(rolling)
    \/ GetDataBody

\* The engine as constructed on the empty timeline, with the same fields as
\* in Init.
InitPoll ==
    /\ rpc = "check"
    /\ r_data_consumer = TRUE
    /\ current_frame = 0
    /\ seek_frame = 0
    /\ playlist = EmptyPlaylist
    /\ file_cursor = [i \in FileIds |-> 0]
    /\ keep_reading = TRUE
    /\ seek_chan = <<>>
    /\ ready_chan = <<>>
    /\ data_queue = <<>>
    /\ fpc = "idle"
    /\ call = [op |-> "none", frame |-> 0, rolling |-> FALSE]
    /\ ret = "none"
    /\ data_consumer = FALSE
    /\ previously_rolling = FALSE
    /\ state = Seeking(0)
    /\ target = GarbageTarget
    /\ panicked = "none"
    /\ polling = FALSE
    /\ consumer_frame = 0
    /\ popped = <<>>
    /\ fills = 0
    /\ seek_done = FALSE
    /\ requested = 0

\* The reader thread keeps being scheduled, a call that began runs to its
\* end, and the caller polls again and again.  The handshake does not read
\* the samples, so the timeline is the empty one.
SpecPoll ==
    /\ InitPoll
    /\ [][NextPoll]_vars
    /\ WF_vars(Reader)
    /\ WF_vars(SeekBody \/ SeekPush \/ GetDataBody)
    /\ SF_vars(PollSeek)

\* ------------------------------------------------------------ properties
\* Number of places holding the consumer half of the block queue.
Holders ==
    (IF r_data_consumer THEN 1 ELSE 0) + Len(ready_chan) + Len(seek_chan)
        + (IF data_consumer THEN 1 ELSE 0)

\* C1: in every reachable state the consumer half of the block queue is
\* held by exactly one of the reader's slot, the ready channel, the
\* seek-request channel and the facade's data_consumer slot.
ConsumerHeldOnce == Holders = 1

\* The consumer has gone round: reader, ready channel, facade, seek channel.
ConsumerOnSeekChannel ==
    /\ seek_chan # <<>>
    /\ ~r_data_consumer /\ ~data_consumer /\ ready_chan = <<>>

GetDataErrors == {"EmptyBuffer", "IncompleteSeek", "SeekWhileRolling"}

\* C2: whenever get_data has returned an error, every sample of every
\* target slice is zero.
ErrorLeavesSilence ==
    (fpc = "idle" /\ call.op = "get_data" /\ ret \in GetDataErrors)
        => IsSilent(target)

\* What the timeline puts on channel c at a frame: the sum of the entries
\* of pl, from entry i on, that cover the frame and are routed to c.
RECURSIVE TimelineSample(_, _, _, _)
TimelineSample(pl, i, c, frame) ==
    IF i > Len(pl) THEN 0
    ELSE (IF /\ channel_map(pl[i].idx) = c
             /\ pl[i].begin <= frame
             /\ frame < pl[i].begin + pl[i].duration
          THEN FileSample(pl[i].idx, frame - pl[i].begin)
          ELSE 0) + TimelineSample(pl, i + 1, c, frame)

\* The block covering frames [f, f + blocksize).
BlockAt(pl, f) ==
    [c \in 1..channels |-> [j \in 1..blocksize |-> TimelineSample(pl, 1, c, f + j - 1)]]

\* C4: consumer_frame is f + k * blocksize, for the tag f of the consumer
\* the facade adopted and the k chunks popped from it so far; the chunk a
\* get_data pops is the block of the timeline that starts there.
InOrderDelivery ==
    [][(fpc = "get_data" /\ popped' # <<>>)
        => /\ popped'.frame = consumer_frame
           /\ popped'.data = BlockAt(playlist, consumer_frame)
           /\ consumer_frame' = consumer_frame + blocksize]_vars

\* The second chunk of a consumer pre-buffered for the last seek target.
SecondChunkAfterSeek ==
    /\ popped # <<>>
    /\ playlist # <<>>
    /\ popped.frame = 1 + blocksize
    /\ consumer_frame = 1 + 2 * blocksize

\* C5: the push on the seek-request channel in seek and the push on the
\* ready channel in the reader loop both find their channel empty, and no
\* unwrap() of a push result panics.
PushFindsChannelEmpty ==
    [][/\ (fpc = "push" /\ fpc' # "push")
            => (seek_chan = <<>> /\ panicked' = "none")
       /\ (rpc = "handoff" /\ rpc' # "handoff" /\ r_data_consumer
              /\ handoff_due(current_frame, seek_frame))
            => (ready_chan = <<>> /\ panicked' = "none")]_vars

\* The reader has answered a seek request: both pushes have happened.
ReadyAfterSeekRequest ==
    /\ ready_chan # <<>>
    /\ Head(ready_chan) # 0
    /\ panicked = "none"

\* C6: seek(f) while the position is Playing(f) returns true and changes
\* neither the position, the consumer slot, previously_rolling, the handoff
\* channels nor the block queue.
SeekIdempotent ==
    [][(fpc = "seek" /\ fpc' # "seek" /\ state = Playing(call.frame))
        => /\ ret' = "true"
           /\ fpc' = "idle"
           /\ UNCHANGED <<state, data_consumer, previously_rolling>>
           /\ UNCHANGED <<seek_chan, ready_chan, data_queue>>]_vars

\* seek returned true while rolling: only the Playing(f) branch does that.
SeekTrueWhileRolling ==
    /\ fpc = "idle" /\ call.op = "seek" /\ ret = "true"
    /\ previously_rolling
    /\ state = Playing(call.frame)
    /\ data_queue # <<>>

\* Reader fill steps a pending seek may see before it completes.
FillBound == 3 * buffer_blocks

\* C3 as stated: once the caller only polls, a pending target is
\* eventually reached (some seek for it returns true, which makes the
\* position Playing).
SeekConverges ==
    (polling /\ state.kind = "Seeking") ~> (state.kind = "Playing")

\* C3 amended: once the caller only polls, a target f pending with
\* previously_rolling false is eventually reached: the position leaves
\* Seeking(f) for Playing(f) and for nothing else, and the reader fills at
\* most FillBound chunks while f is pending.
SeekConvergesWhenPaused ==
    /\ [](SeekPending => fills <= FillBound)
    /\ [][(polling /\ state.kind = "Seeking")
            => (state' = state \/ state' = Playing(state.frame))]_vars
    /\ (polling /\ SeekPending) ~> (state.kind = "Playing")

\* A seek to a frame other than the initial one has completed.
SeekCompleted ==
    /\ polling
    /\ fpc = "idle" /\ call.op = "seek" /\ ret = "true"
    /\ state = Playing(1)
    /\ ~previously_rolling
    /\ consumer_frame = 1

\* C7 as stated: a get_data call made before any seek has returned true
\* returns IncompleteSeek and leaves every target sample zero.
NoConsumerSafety ==
    (fpc = "idle" /\ call.op = "get_data" /\ ~seek_done)
        => (ret = "IncompleteSeek" /\ IsSilent(target))

\* C7 amended: a get_data call that returns while no seek has returned true
\* yet leaves every target sample zero; it returns IncompleteSeek when
\* rolling is true and Ok when rolling is false.
NoConsumerSafetyByRolling ==
    [][(call.op = "get_data" /\ fpc \in {"get_data", "push"} /\ fpc' = "idle"
            /\ ~seek_done)
        => /\ IsSilent(target')
           /\ ret' = IF call.rolling THEN "IncompleteSeek" ELSE "Ok"]_vars

\* get_data(rolling = true) came too early although a consumer is ready.
EarlyRollingCall ==
    /\ fpc = "idle" /\ call.op = "get_data" /\ call.rolling
    /\ ~seek_done
    /\ ret = "IncompleteSeek"
    /\ ready_chan # <<>>

\* A get_data(rolling = true) call whose body runs now, position Seeking.
RollingWhileSeeking ==
    fpc = "get_data" /\ call.rolling /\ state.kind = "Seeking"

\* C8 as stated: every get_data call with rolling = true made while the
\* position state is Seeking returns SeekWhileRolling.
MisuseDetected ==
    [][(RollingWhileSeeking /\ fpc' # "get_data")
        => ret' = "SeekWhileRolling"]_vars

\* C8 amended: such a call returns SeekWhileRolling when it pops a chunk,
\* IncompleteSeek when the facade holds no consumer and EmptyBuffer when
\* the block queue is empty; the position stays Seeking.
MisuseDetectedAfterPop ==
    [][(RollingWhileSeeking /\ fpc' # "get_data")
        => /\ ret' = IF ~data_consumer THEN "IncompleteSeek"
                     ELSE IF data_queue = <<>> THEN "EmptyBuffer"
                     ELSE "SeekWhileRolling"
           /\ state' = state
           /\ fpc' = "idle"]_vars

SeekWhileRollingReturned ==
    /\ fpc = "idle" /\ call.op = "get_data" /\ call.rolling
    /\ state.kind = "Seeking"
    /\ ret = "SeekWhileRolling"
    /\ popped # <<>>

\* A get_data body runs now with the consumer held and the queue empty.
Underrun == fpc = "get_data" /\ data_consumer /\ data_queue = <<>>

\* C9 as stated: if the block queue is empty when get_data is called while
\* the facade holds the consumer, the call returns EmptyBuffer and every
\* target sample is zero.
UnderrunSafety ==
    [][(Underrun /\ fpc' # "get_data")
        => (ret' = "EmptyBuffer" /\ IsSilent(target'))]_vars

\* C9 amended: the same, for calls with rolling or previously_rolling true.
UnderrunSafetyUnlessPaused ==
    [][(Underrun /\ fpc' # "get_data" /\ (call.rolling \/ previously_rolling))
        => (ret' = "EmptyBuffer" /\ IsSilent(target') /\ fpc' = "idle")]_vars

EmptyBufferReturned ==
    /\ fpc = "idle" /\ call.op = "get_data"
    /\ ret = "EmptyBuffer"
    /\ data_consumer /\ data_queue = <<>>
    /\ IsSilent(target)

\* A get_data(rolling = false) body runs now after steady rolling playback
\* and has a chunk to pop.
FadeOutStep ==
    /\ fpc = "get_data" /\ ~call.rolling /\ previously_rolling
    /\ state.kind = "Playing"
    /\ data_consumer /\ data_queue # <<>>

\* t is chunk data d with the fade-out gains (blocksize - j) / blocksize,
\* j counted from 0.
FadeOutWeighted(t, d) ==
    \A c \in 1..channels : \A j \in 1..blocksize :
        t[c][j] * blocksize = d[c][j] * (blocksize - (j - 1))

\* C10 as stated: the call outputs the chunk with fade-out weights and
\* leaves a seek pending.
FadeOutSchedulesSeek ==
    [][(FadeOutStep /\ fpc' # "get_data")
        => /\ FadeOutWeighted(target', Head(data_queue).data)
           /\ (state'.kind = "Seeking" \/ seek_chan' # <<>>)]_vars

\* C10 amended: the call outputs the chunk with fade-out weights, returns
\* Ok, advances the position by blocksize and sends no seek request.
FadeOutAdvances ==
    [][(FadeOutStep /\ fpc' # "get_data")
        => /\ FadeOutWeighted(target', Head(data_queue).data)
           /\ state' = Playing(state.frame + blocksize)
           /\ seek_chan' = <<>> /\ data_consumer'
           /\ ~previously_rolling'
           /\ ret' = "Ok" /\ fpc' = "idle"]_vars

\* An audible chunk has been faded out.
FadedOut ==
    /\ fpc = "idle" /\ call.op = "get_data" /\ ~call.rolling
    /\ popped # <<>>
    /\ state.kind = "Playing"
    /\ ~IsSilent(target) /\ target # popped.data

\* The engine with its teardown: the reader thread keeps being scheduled
\* (its sleep is finite), and a join whose thread has ended returns.
SpecDrop ==
    /\ Init
    /\ [][Next]_vars
    /\ WF_vars(Reader)
    /\ WF_vars(Join)

\* Steps the reader has left in its current loop iteration.
StepsLeft(pc) ==
    CASE pc = "seek" -> 4
      [] pc = "fill" -> 3
      [] pc = "handoff" -> 2
      [] pc = "check" -> 1
      [] OTHER -> 0

\* C11: once drop has cleared the flag, the reader thread only moves
\* forward in its current loop iteration and starts no other one, no unwrap
\* panics, and the join in drop completes with the thread ended.
ShutdownCompletes ==
    /\ [][~keep_reading
            => (StepsLeft(rpc') <= StepsLeft(rpc) /\ panicked' = "none")]_vars
    /\ [](fpc = "dropped" => rpc = "done")
    /\ (fpc = "join") ~> (fpc = "dropped")

\* The engine was dropped while a seek request was in flight and the block
\* queue was not full.
DroppedMidSeek ==
    /\ fpc = "dropped"
    /\ seek_chan # <<>>
    /\ Len(data_queue) < buffer_blocks

\* C12: whenever the position is Playing(p) the facade holds the consumer
\* and the oldest chunk of the block queue, if any, is the block of the
\* timeline starting at frame p; a get_data that pops a chunk takes
\* Playing(p) to Playing(p + blocksize) and leaves Seeking(x) as it is.
PositionInvariant ==
    /\ [](state.kind = "Playing"
            => /\ data_consumer
               /\ data_queue # <<>>
                    => /\ Head(data_queue).frame = state.frame
                       /\ Head(data_queue).data = BlockAt(playlist, state.frame))
    /\ [][(fpc = "get_data" /\ popped' # <<>>)
            => IF state.kind = "Playing"
               THEN state' = Playing(state.frame + blocksize)
               ELSE state' = state]_vars

\* Two chunks on from a seek to frame 1, with the next chunk waiting.
PlayingPastSeek ==
    /\ state = Playing(1 + 2 * blocksize)
    /\ popped # <<>>
    /\ data_queue # <<>>
    /\ playlist # <<>>

\* A seek target waits for the fade-out.
Deferred == state.kind = "Seeking" /\ previously_rolling

\* The get_data(rolling = false) body that runs now pops a chunk.
PopsFadeOut == fpc = "get_data" /\ ~call.rolling /\ popped' # <<>>

\* C13: seek(t) called while previously_rolling is true, the position not
\* being Playing(t), makes the position Seeking(t), returns false, keeps the
\* consumer and sends nothing; while the target waits nothing is sent and
\* the consumer stays, until a get_data(rolling = false) pops a chunk, and
\* that call sends the request for the target then pending.
DeferredSeek ==
    [][/\ (fpc = "seek" /\ fpc' # "seek" /\ previously_rolling
              /\ state # Playing(call.frame))
            => /\ state' = Seeking(call.frame)
               /\ ret' = "false" /\ fpc' = "idle"
               /\ data_consumer /\ data_consumer'
               /\ UNCHANGED <<seek_chan, ready_chan, previously_rolling>>
       /\ (Deferred /\ ~PopsFadeOut)
            => (Deferred' /\ data_consumer' /\ seek_chan' = <<>>)
       /\ (Deferred /\ PopsFadeOut)
            => /\ state' = state /\ ~previously_rolling'
               /\ fpc' = "push" /\ data_consumer' /\ seek_chan' = <<>>
       /\ (fpc = "push" /\ call.op = "get_data" /\ fpc' # "push")
            => /\ seek_chan' = <<state.frame>> /\ ~data_consumer'
               /\ state' = state
               /\ ret' = "Ok" /\ fpc' = "idle"]_vars

\* get_data has faded out and sent the request of a deferred seek(1).
DeferredSeekSent ==
    /\ fpc = "idle" /\ call.op = "get_data" /\ ~call.rolling
    /\ ret = "Ok" /\ popped # <<>>
    /\ state = Seeking(1)
    /\ seek_chan = <<1>>

\* A seek body runs now while the request last sent is outstanding.
SeekWhileOutstanding == fpc = "seek" /\ ~data_consumer

\* C14: a seek(f2) called while the facade does not hold the consumer
\* sends nothing and returns false as long as the ready channel is empty;
\* what arrives on the ready channel is the consumer tagged with the frame
\* f1 of the outstanding request, with a full buffer starting at f1; the
\* seek that receives it returns true when f1 = f2 and otherwise forwards
\* (f2, consumer); a request goes out only from a facade holding the
\* consumer.
SupersededSeek ==
    /\ [](ready_chan # <<>>
            => /\ Head(ready_chan) = requested
               /\ Len(data_queue) = buffer_blocks
               /\ Head(data_queue).frame = requested)
    /\ [][/\ (seek_chan' # seek_chan /\ seek_chan' # <<>>)
               => (fpc = "push" /\ data_consumer /\ seek_chan' = <<state.frame>>)
          /\ (SeekWhileOutstanding /\ fpc' # "seek")
               => IF ready_chan = <<>>
                  THEN /\ ret' = "false" /\ fpc' = "idle"
                       /\ state' = Seeking(call.frame)
                       /\ ~data_consumer'
                       /\ UNCHANGED <<seek_chan, requested>>
                  ELSE IF requested = call.frame
                  THEN /\ ret' = "true" /\ fpc' = "idle"
                       /\ state' = Playing(call.frame)
                       /\ data_consumer' /\ ready_chan' = <<>>
                       /\ UNCHANGED <<seek_chan, requested>>
                  ELSE /\ fpc' = "push" /\ ret' # "true"
                       /\ state' = Seeking(call.frame)
                       /\ data_consumer' /\ ready_chan' = <<>>
                       /\ UNCHANGED <<seek_chan, requested>>
          /\ (fpc = "push" /\ call.op = "seek" /\ fpc' # "push")
               => /\ seek_chan' = <<call.frame>> /\ requested' = call.frame
                  /\ ~data_consumer'
                  /\ ret' = "false" /\ fpc' = "idle"]_vars

\* seek(blocksize) has received the consumer filled for frame 1 and
\* forwarded it with its own target.
SeekForwarded ==
    /\ fpc = "idle" /\ call.op = "seek" /\ call.frame = blocksize
    /\ ret = "false"
    /\ consumer_frame = 1
    /\ seek_chan = <<blocksize>>

\* The queue holds n chunks, the blocks of the timeline from frame f on.
ConsecutiveFrom(queue, f, n) ==
    /\ Len(queue) = n
    /\ \A i \in 1..Len(queue) :
          /\ queue[i].frame = f + (i - 1) * blocksize
          /\ queue[i].data = BlockAt(playlist, queue[i].frame)

\* C15: something is put on the ready channel only by the reader right
\* after a fill step, while it holds the consumer and current_frame is
\* buffer_blocks blocks past seek_frame; what is sent is (seek_frame,
\* consumer), the block queue then holds exactly buffer_blocks chunks
\* consecutive from seek_frame, and the reader gets a consumer to send
\* again only by servicing a seek request.
HandoffDecision ==
    [][/\ (ready_chan' # ready_chan /\ ready_chan' # <<>>)
            => /\ rpc = "handoff"
               /\ r_data_consumer /\ ~r_data_consumer'
               /\ current_frame - seek_frame = buffer_blocks * blocksize
               /\ ready_chan = <<>> /\ ready_chan' = <<seek_frame>>
               /\ ConsecutiveFrom(data_queue, seek_frame, buffer_blocks)
               /\ UNCHANGED data_queue
       /\ (~r_data_consumer /\ r_data_consumer')
            => (rpc = "seek" /\ seek_chan # <<>>)
       /\ (rpc = "handoff" /\ rpc' # "handoff" /\ r_data_consumer
              /\ current_frame - seek_frame >= buffer_blocks * blocksize)
            => ready_chan' = <<seek_frame>>]_vars

\* The reader has handed off a buffer of audible blocks filled from frame 1.
HandedOffFromOne ==
    /\ ready_chan = <<1>>
    /\ ~r_data_consumer
    /\ playlist # <<>>
    /\ rpc = "check"

\* C16: the step in which the reader pops a request (frame, consumer)
\* leaves the block queue empty, the reader holding the consumer and
\* current_frame = seek_frame = frame; and as long as the reader holds the
\* consumer without having filled since (current_frame = seek_frame), the
\* block queue is empty and seek_frame is the frame requested.
SeekService ==
    /\ [][(seek_chan # <<>> /\ seek_chan' = <<>>)
            => /\ rpc = "seek" /\ rpc' = "fill"
               /\ data_queue' = <<>>
               /\ r_data_consumer'
               /\ current_frame' = Head(seek_chan)
               /\ seek_frame' = Head(seek_chan)]_vars
    /\ []((r_data_consumer /\ current_frame = seek_frame)
            => (data_queue = <<>> /\ seek_frame = requested))

\* The reader has serviced a request for frame 1 sent after the facade had
\* consumed a chunk, and has not filled yet.
SeekServiced ==
    /\ rpc = "fill"
    /\ r_data_consumer
    /\ current_frame = 1 /\ seek_frame = 1
    /\ requested = 1 /\ seek_chan = <<>>
    /\ popped # <<>>

\* The reader is about to fill a block.
FillStep == rpc = "fill" /\ Len(data_queue) < buffer_blocks

\* C17: in each fill step, for every active entry, the cursor of its file
\* at the fill_channels call is current_frame + offset - begin, where
\* offset is begin - current_frame for an entry that begins in or after the
\* block and 0 for one that began before; after the step the cursor is
\* current_frame + blocksize - begin.
FileCursorRule ==
    [][FillStep /\ rpc' # "fill"
        => \A i \in 1..Len(playlist) :
             LET entry == playlist[i]
                 off == IF entry.begin >= current_frame
                        THEN entry.begin - current_frame ELSE 0
             IN IsActive(entry, current_frame, current_frame + blocksize)
                  => /\ file_seek(entry, current_frame, seek_frame, file_cursor)
                          = current_frame + off - entry.begin
                     /\ offset(entry, current_frame) = off
                     /\ file_cursor'[entry.idx]
                          = current_frame + blocksize - entry.begin]_vars

\* The reader has filled the second block after a seek to frame 1, reading
\* file 1 on from where the first block left its cursor.
ContinuedWithoutSeek ==
    /\ rpc = "handoff"
    /\ playlist = TwoEntries
    /\ seek_frame = 1 /\ current_frame = 1 + 2 * blocksize
    /\ file_cursor[1] = 2 * blocksize
    /\ requested = 1

\* Chunk t is chunk d with sample j (from 1) of every channel scaled by
\* num[j] / blocksize.
Weighted(t, d, num) ==
    \A c \in 1..channels : \A j \in 1..blocksize :
        t[c][j] * blocksize = d[c][j] * num[j]

\* C18: a get_data that pops a chunk writes it to target with gain
\* (j + 1) / B at sample j (from 0) when rolling and not previously
\* rolling, with gain (B - j) / B when not rolling and previously rolling,
\* and unchanged when rolling and previously rolling; for B = 4 the gain
\* numerators are 1, 2, 3, 4 and 4, 3, 2, 1.
FadeGains ==
    /\ fade_in_ramp(4) = <<1, 2, 3, 4>>
    /\ fade_out_ramp(4) = <<4, 3, 2, 1>>
    /\ [][(fpc = "get_data" /\ popped' # <<>>)
            => /\ popped' = Head(data_queue)
               /\ IF call.rolling /\ ~previously_rolling
                  THEN Weighted(target', popped'.data, [j \in 1..blocksize |-> j])
                  ELSE IF ~call.rolling /\ previously_rolling
                  THEN Weighted(target', popped'.data,
                                [j \in 1..blocksize |-> blocksize + 1 - j])
                  ELSE call.rolling /\ previously_rolling
                         /\ target' = popped'.data]_vars

\* An audible chunk has been faded in.
FadedIn ==
    /\ fpc = "idle" /\ call.op = "get_data" /\ call.rolling
    /\ popped # <<>>
    /\ ret = "Ok"
    /\ ~IsSilent(target) /\ target # popped.data

\* A get_data(rolling = false) body runs now with previously_rolling false.
PausedCall == fpc = "get_data" /\ ~call.rolling /\ ~previously_rolling

\* C19: a get_data call with rolling = false while previously_rolling is
\* false zeroes every target sample, pops nothing from the block queue,
\* leaves previously_rolling false and a Playing(p) position as it is, and
\* returns Ok, at once or after the push of the seek request it issues.
PausedBlock ==
    [][/\ (PausedCall /\ fpc' # "get_data")
            => /\ IsSilent(target')
               /\ data_queue' = data_queue /\ popped' = <<>>
               /\ ~previously_rolling'
               /\ state.kind = "Playing" => (state' = state /\ fpc' = "idle")
               /\ fpc' \in {"idle", "push"}
               /\ fpc' = "idle" => ret' = "Ok"
       /\ (fpc = "push" /\ call.op = "get_data" /\ fpc' # "push")
            => /\ ret' = "Ok" /\ fpc' = "idle"
               /\ UNCHANGED <<target, data_queue, previously_rolling>>]_vars

\* A paused block was delivered while playing, with chunks waiting.
PausedWhilePlaying ==
    /\ fpc = "idle" /\ call.op = "get_data" /\ ~call.rolling
    /\ ret = "Ok"
    /\ state.kind = "Playing" /\ state.frame > 0
    /\ Len(data_queue) = buffer_blocks
    /\ popped = <<>>
    /\ IsSilent(target)
    /\ playlist # <<>>

\* C20: the get_data step that returns EmptyBuffer or IncompleteSeek
\* changes neither the position, previously_rolling, the facade's consumer
\* slot, the handoff channels nor the block queue; a fade-out call that
\* finds the block queue empty returns EmptyBuffer with previously_rolling
\* still true and sends no seek request.
ErrorLeavesState ==
    [][/\ (fpc = "get_data" /\ ret' \in {"EmptyBuffer", "IncompleteSeek"})
            => /\ fpc' = "idle"
               /\ UNCHANGED <<state, previously_rolling, data_consumer>>
               /\ UNCHANGED <<seek_chan, ready_chan, data_queue>>
       /\ (fpc = "get_data" /\ fpc' # "get_data"
              /\ ~call.rolling /\ previously_rolling /\ data_queue = <<>>)
            => /\ ret' = "EmptyBuffer" /\ fpc' = "idle"
               /\ previously_rolling'
               /\ seek_chan' = <<>>]_vars

\* The fade-out before a deferred seek met an empty block queue.
FadeOutUnderrun ==
    /\ fpc = "idle" /\ call.op = "get_data" /\ ~call.rolling
    /\ ret = "EmptyBuffer"
    /\ previously_rolling
    /\ state.kind = "Seeking"
    /\ data_consumer /\ seek_chan = <<>>

====
